---- MODULE Spec2Model ----
(***************************************************************************)
(* A model of bevy-steam-audio's streaming renderer (SteamDecoder), of the *)
(* listener synchronisation system (listener_update) and of the mesh       *)
(* conversion (AudioMesh::try_from), all of src/src/source.rs.             *)
(*                                                                         *)
(* Vec3 values are modelled by their z coordinate (x = y = 0), f32 samples *)
(* by symbolic values: an upstream mono sample is its 1-based position in  *)
(* the file, a processed frame is the raw frame together with the chain of *)
(* effects applied to it, in order.                                        *)
(***************************************************************************)
EXTENDS Integers, Sequences, FiniteSets, TLC

\* ------------------------------------------------------------------ bounds
\* AudioSettings::default().frame_size() (1024 in the library), scaled down.
FrameSize == 2
\* The longest upstream file, in mono samples.
MaxUpstream == 5
\* World positions lie in 0..MaxPos on the z axis.
MaxPos == 1
\* Entities that may carry the Listener marker.
MaxListeners == 2
\* The longest index buffer of a mesh, and the largest vertex index in it.
MaxIndices == 5
MaxVertex == 2
\* Pulls made on each of two renderers playing at once.
MaxPulls == 7
\* Calls of listener_update between two changes of the scene.
MaxSyncCalls == 2

Pos == 0..MaxPos
\* Native sample rates of the upstream file.
Rates == {44100, 48000}
\* Option<f32>, the Item of the iterator.
NoneItem == [tag |-> "None"]
SomeItem(v) == [tag |-> "Some", val |-> v]

VARIABLES
    \* --- SteamDecoder (source.rs 44-61)
    decoder,               \* the upstream: mono samples not yet pulled
    sample_rate,
    current_channel,
    current_block_offset,
    current_block1,
    current_block2,
    binaural_params,
    direct_params,
    blocks_played,
    \* --- SteamAudio's shared cells, Arc<Mutex<Vec3>> (source.rs 35-40)
    direction,
    source_position,
    listener_position,
    held,                  \* the mutexes the renderer holds
    \* --- locals and position of one call of SteamDecoder::next
    pc,
    input_buffer,
    intermediate_buffer,
    output_buffer,
    dir,
    source_pos,
    listener_pos,
    \* --- the upstream file, fixed at construction
    native_rate,           \* its sample rate
    source_len,            \* its length in mono samples
    \* --- history of the pulls
    ret,                   \* what the last completed pull returned
    ended,                 \* a pull has returned None
    emitted,               \* samples returned before the first None
    served,                \* samples returned since the cursor was last reset
    effect_error,          \* the effect whose apply_to_buffer returned Err
    cell_reads,            \* how often the renderer has read each cell
    call_log,              \* what the pull in progress has done so far
    \* --- the host scene and the simulator (listener_update, source.rs 353-375)
    listeners,             \* the entities carrying the Listener marker
    listener_tf,           \* GlobalTransform of each entity
    source_tf,             \* world position of the sound source
    shared_inputs,         \* the simulator's SimulationSharedInputs
    synced,                \* listener_update has run since the last move
    query_order,           \* the order in which the query visits the listeners
    sync_calls,            \* calls of listener_update since the scene last changed
    \* --- AudioMesh::try_from (source.rs 390-447)
    mesh,                  \* the Mesh handed to try_from
    result,                \* what try_from returned
    \* --- two renderers playing at once (SteamAudio::decoder, source.rs 254-267)
    renderers,             \* each renderer's own fields and the items it returned
    upstreams              \* each opened file: mono samples not yet pulled

decoderVars == <<decoder, sample_rate, current_channel, current_block_offset,
                 current_block1, current_block2, binaural_params, direct_params,
                 blocks_played>>
cellVars == <<direction, source_position, listener_position>>
localVars == <<input_buffer, intermediate_buffer, output_buffer, dir, source_pos,
               listener_pos>>
fileVars == <<native_rate, source_len>>
histVars == <<ret, ended, emitted, served, effect_error>>
callVars == <<cell_reads, call_log>>
hostVars == <<listeners, listener_tf, source_tf, shared_inputs, synced, query_order,
              sync_calls>>
meshVars == <<mesh, result>>
pairVars == <<renderers, upstreams>>
vars == <<decoderVars, cellVars, held, pc, localVars, fileVars, histVars, callVars,
          hostVars, meshVars, pairVars>>

\* ------------------------------------------------------------ pure helpers
Abs(x) == IF x < 0 THEN -x ELSE x
Sign(x) == IF x < 0 THEN -1 ELSE IF x > 0 THEN 1 ELSE 0

\* DeinterleavedFrame::new: zero-filled storage, no effect applied yet.
NewFrame(n) == [chain |-> <<>>, data |-> [i \in 1..n |-> 0]]

\* DeinterleavedFrame::push_source (steam_audio crate), from the Frame Buffer
\* contract: pulls frame_size samples; false on upstream exhaustion, the
\* samples pulled so far being gone from the upstream.
PushSource(src, n) ==
    IF Len(src) >= n
    THEN [ok |-> TRUE, frame |-> [chain |-> <<>>, data |-> SubSeq(src, 1, n)],
          rest |-> SubSeq(src, n + 1, Len(src))]
    ELSE [ok |-> FALSE,
          frame |-> [chain |-> <<>>,
                     data |-> [i \in 1..n |-> IF i <= Len(src) THEN src[i] ELSE 0]],
          rest |-> <<>>]

\* DistanceAttenuationModel::calculate(context, source, listener): a function
\* of the two positions, kept as the distance it is computed from.
Attenuation(s, l) == Abs(s - l)
\* AirAbsorptionModel::calculate(context, source, listener).
Absorption(s, l) == Abs(s - l)
\* Directivity::calculate(context, fixed orientation, listener_pos).
DirectivityOf(l) == l

\* DirectEffectParams after lines 205-207.
DirectParams(old, s, l) ==
    [old EXCEPT !.distance_attenuation = Attenuation(s, l),
                !.air_absorption = Absorption(s, l),
                !.directivity = DirectivityOf(l)]

\* DirectEffect::apply_to_buffer on success: the mono output frame.
ApplyDirect(params, in) ==
    [chain |-> Append(in.chain, <<"direct", params>>), data |-> in.data]

\* BinauralEffect::apply_to_buffer on success: the 2-channel output frame.
ApplyBinaural(params, in) ==
    [chain |-> Append(in.chain, <<"binaural", params>>), data |-> in.data]

\* A renderer that hands the raw input frame to the binaural effect.
BinauralInput_Raw(in, inter) == in

\* The buffer handed to the binaural effect (line 219).
BinauralInput(in, inter) == inter

\* output_buffer.current_frame[c].clone(), c = 0 (left) or 1 (right).
CurrentFrame(frame, c) ==
    [i \in 1..Len(frame.data) |-> [ch |-> c, idx |-> i - 1, of |-> frame]]

\* A cursor test that gives up one sample early.
HasBuffered_OneEarly(offset, block1) == offset + 1 < Len(block1)

\* A cursor test that lets the cursor stand on the end of the block.
HasBuffered_Inclusive(offset, block1) == offset <= Len(block1)

\* Line 133: the cursor is inside the buffered block.
HasBuffered(offset, block1) == offset < Len(block1)

\* A pull that reads the left block for both channels.
RawVal_LeftOnly(channel, offset, block1, block2) == block1[offset + 1]

\* Lines 137-141: the sample a pull returns.
RawVal(channel, offset, block1, block2) ==
    IF channel THEN block1[offset + 1] ELSE block2[offset + 1]

\* A cursor that advances on every pull.
NextBlockOffset_EveryPull(channel, offset) == offset + 1

\* A cursor that advances after the left-channel sample.
NextBlockOffset_AfterLeft(channel, offset) == IF channel THEN offset + 1 ELSE offset

\* Lines 137-142: the cursor after a pull served from the block.
NextBlockOffset(channel, offset) == IF channel THEN offset ELSE offset + 1

\* A refill that leaves the cursor where it was.
ResetOffset_Missing(offset) == offset

\* Line 149: the cursor goes back to the start of the block.
ResetOffset(offset) == 0

\* A renderer that binds the guard to a local, keeping the mutex locked.
Release_KeepGuard(h, cell) == h

\* Lines 172-174: the guard is a temporary, dropped with its statement.
Release(h, cell) == h \ {cell}

\* The three mutex-guarded cells of a SteamAudio.
Cells == {"direction", "source_position", "listener_position"}

\* Line 144.
NextChannel(channel) == ~channel

\* A counter that is set rather than incremented.
NextBlocksPlayed_Set(n) == 1

\* Line 226.
NextBlocksPlayed(n) == n + 1

\* Line 97: the rate SteamDecoder::new stores, whatever the file's rate.
NewSampleRate(rate) == 44100

\* Source::sample_rate (lines 245-247).
SampleRate == sample_rate

\* The direction of the source in listener-local space, normalised (zero when
\* coincident); yaw 180 turns the listener round.
Direction(s, l, yaw) == IF yaw = 0 THEN Sign(s - l) ELSE -Sign(s - l)

\* ------------------------------------------------------------------- Init
\* Lines 85-86.
NewBinauralParams == [direction |-> 0, interpolation |-> "Bilinear"]

\* Lines 90-93.
NewDirectParams ==
    [flags |-> {"AIR_ABSORPTION", "DISTANCE_ATTENUATION", "DIRECTIVITY"},
     distance_attenuation |-> 0, air_absorption |-> 0, directivity |-> 0]

\* SteamDecoder::new (lines 64-123) on a file of m mono samples at `rate` Hz.
NewDecoder(m, rate) ==
    /\ decoder = [i \in 1..m |-> i]
    /\ source_len = m
    /\ native_rate = rate
    /\ sample_rate = NewSampleRate(native_rate)
    /\ current_channel = TRUE
    /\ current_block_offset = 0
    /\ current_block1 = <<>>
    /\ current_block2 = <<>>
    /\ binaural_params = NewBinauralParams
    /\ direct_params = NewDirectParams
    /\ blocks_played = 0
    /\ pc = "idle"
    /\ input_buffer = NewFrame(0)
    /\ intermediate_buffer = NewFrame(0)
    /\ output_buffer = NewFrame(0)
    /\ dir = 0
    /\ source_pos = 0
    /\ listener_pos = 0
    /\ held = {}
    /\ ret = [tag |-> "pending"]
    /\ ended = FALSE
    /\ emitted = 0
    /\ served = <<>>
    /\ effect_error = "none"
    /\ cell_reads = [c \in Cells |-> 0]
    /\ call_log = <<>>

InitCells ==
    /\ direction = 0
    /\ source_position = 0
    /\ listener_position = 0

\* The scene: which entities carry the Listener marker and where they are.
Entities == 1..MaxListeners
Yaws == {0, 180}
Transforms == [translation : Pos, yaw : Yaws]
DefaultTransform == [translation |-> 0, yaw |-> 0]
\* The simulator's shared inputs before any set_shared_inputs call.
UnsetOrientation == [origin |-> <<0, 0, 0>>, right |-> <<0, 0, 0>>,
                     up |-> <<0, 0, 0>>, ahead |-> <<0, 0, 0>>]
DefaultSharedInputs == [listener |-> UnsetOrientation]

\* The orders in which a query may visit the entities of S.
Orders(S) ==
    {o \in [1..Cardinality(S) -> S] :
        \A i, j \in 1..Cardinality(S) : i # j => o[i] # o[j]}

InitHost(ls, tf, src, order) ==
    /\ query_order = order
    /\ listeners = ls
    /\ listener_tf = tf
    /\ source_tf = src
    /\ shared_inputs = DefaultSharedInputs
    /\ synced = FALSE
    /\ sync_calls = 0

NoMesh == [indices |-> [kind |-> "None", values |-> <<>>],
           topology |-> "TriangleList",
           positions |-> [format |-> "Missing", values |-> <<>>]]

InitMesh(m) ==
    /\ mesh = m
    /\ result = [tag |-> "pending"]

\* Two renderers made by SteamAudio::decoder (lines 259-266).
RendererIds == {1, 2}

\* The fields SteamDecoder::new gives a renderer (lines 98-122), and the items
\* it has returned so far.
FreshRenderer ==
    [current_channel |-> TRUE, current_block_offset |-> 0, current_block1 |-> <<>>,
     current_block2 |-> <<>>, binaural_params |-> NewBinauralParams,
     direct_params |-> NewDirectParams, blocks_played |-> 0, out |-> <<>>]

\* The file renderer d opens (lines 71-72): m mono samples of its own pattern.
OpenFile(d, m) ==
    LET samples == [i \in 1..m |-> 10 * d + i]
    IN [file |-> samples, rest |-> samples]

\* Both renderers fresh, renderer d on a file of ms[d] samples.
InitPair(ms) ==
    /\ renderers = [d \in RendererIds |-> FreshRenderer]
    /\ upstreams = [d \in RendererIds |-> OpenFile(d, ms[d])]

NoFiles == [d \in RendererIds |-> 0]

\* A renderer on any file, with an update context; one listener at rest.
Init ==
    /\ \E m \in 0..MaxUpstream, rate \in Rates : NewDecoder(m, rate)
    /\ InitCells
    /\ InitHost({1}, [e \in Entities |-> DefaultTransform], 0, <<1>>)
    /\ InitMesh(NoMesh)
    /\ InitPair(NoFiles)

\* --------------------------------------------------- SteamDecoder::next
AtTop == pc \in {"idle", "top"}

\* Lines 133-146: serve one sample from the buffered block.
Serve ==
    /\ AtTop
    /\ HasBuffered(current_block_offset, current_block1)
    /\ LET v == RawVal(current_channel, current_block_offset, current_block1,
                       current_block2)
       IN /\ ret' = SomeItem(v)
          /\ served' = Append(served, v)
    /\ current_block_offset' = NextBlockOffset(current_channel, current_block_offset)
    /\ current_channel' = NextChannel(current_channel)
    /\ emitted' = IF ended THEN emitted ELSE emitted + 1
    /\ pc' = "idle"
    /\ call_log' = <<>>
    /\ UNCHANGED <<decoder, sample_rate, current_block1, current_block2,
                   binaural_params, direct_params, blocks_played, cellVars, held,
                   localVars, fileVars, pairVars, hostVars, meshVars, ended, effect_error,
                   cell_reads>>

\* Lines 149-171, push_source succeeds: the cursor is reset and a frame read.
RefillStart ==
    /\ AtTop
    /\ ~HasBuffered(current_block_offset, current_block1)
    /\ LET r == PushSource(decoder, FrameSize)
       IN /\ r.ok
          /\ decoder' = r.rest
          /\ input_buffer' = r.frame
    /\ current_block_offset' = ResetOffset(current_block_offset)
    /\ intermediate_buffer' = NewFrame(FrameSize)
    /\ output_buffer' = NewFrame(FrameSize)
    /\ served' = <<>>
    /\ pc' = "lock_direction"
    /\ call_log' = Append(call_log, "fill")
    /\ UNCHANGED <<sample_rate, current_channel, current_block1, current_block2,
                   binaural_params, direct_params, blocks_played, cellVars, held,
                   dir, source_pos, listener_pos, fileVars, pairVars, hostVars, meshVars, ret, ended, emitted,
                   effect_error, cell_reads>>

\* A renderer that ignores push_source's result and renders the short frame.
RefillExhausted_RendersPartial ==
    /\ AtTop
    /\ ~HasBuffered(current_block_offset, current_block1)
    /\ LET r == PushSource(decoder, FrameSize)
       IN /\ ~r.ok
          /\ decoder' = r.rest
          /\ input_buffer' = r.frame
    /\ current_block_offset' = ResetOffset(current_block_offset)
    /\ intermediate_buffer' = NewFrame(FrameSize)
    /\ output_buffer' = NewFrame(FrameSize)
    /\ served' = <<>>
    /\ pc' = "lock_direction"
    /\ call_log' = Append(call_log, "fill")
    /\ UNCHANGED <<sample_rate, current_channel, current_block1, current_block2,
                   binaural_params, direct_params, blocks_played, cellVars, held,
                   dir, source_pos, listener_pos, fileVars, pairVars, hostVars,
                   meshVars, ret, ended, emitted, effect_error, cell_reads>>

\* A renderer that takes its SpatialState copies before it fills from upstream.
RefillExhausted_ReadsFirst ==
    /\ AtTop
    /\ ~HasBuffered(current_block_offset, current_block1)
    /\ LET r == PushSource(decoder, FrameSize)
       IN /\ ~r.ok
          /\ decoder' = r.rest
          /\ input_buffer' = r.frame
    /\ dir' = direction
    /\ source_pos' = source_position
    /\ listener_pos' = listener_position
    /\ cell_reads' = [c \in Cells |-> cell_reads[c] + 1]
    /\ current_block_offset' = ResetOffset(current_block_offset)
    /\ intermediate_buffer' = NewFrame(FrameSize)
    /\ output_buffer' = NewFrame(FrameSize)
    /\ served' = <<>>
    /\ ret' = NoneItem
    /\ ended' = TRUE
    /\ pc' = "idle"
    /\ call_log' = <<>>
    /\ UNCHANGED <<sample_rate, current_channel, current_block1, current_block2,
                   binaural_params, direct_params, blocks_played, cellVars, held,
                   fileVars, pairVars, hostVars, meshVars, emitted, effect_error>>

\* Lines 149-171 and 227-229, push_source fails: the cursor is reset and the
\* pull returns None.
RefillExhausted ==
    /\ AtTop
    /\ ~HasBuffered(current_block_offset, current_block1)
    /\ LET r == PushSource(decoder, FrameSize)
       IN /\ ~r.ok
          /\ decoder' = r.rest
          /\ input_buffer' = r.frame
    /\ current_block_offset' = ResetOffset(current_block_offset)
    /\ intermediate_buffer' = NewFrame(FrameSize)
    /\ output_buffer' = NewFrame(FrameSize)
    /\ served' = <<>>
    /\ ret' = NoneItem
    /\ ended' = TRUE
    /\ pc' = "idle"
    /\ call_log' = <<>>
    /\ UNCHANGED <<sample_rate, current_channel, current_block1, current_block2,
                   binaural_params, direct_params, blocks_played, cellVars, held,
                   dir, source_pos, listener_pos, fileVars, pairVars, hostVars, meshVars, emitted, effect_error,
                   cell_reads>>

\* Lines 172-174: each statement locks one mutex, copies the vector out and
\* drops the guard at the end of the statement.
Lock(at, cell, to) ==
    /\ pc = at
    /\ cell \notin held
    /\ held' = held \cup {cell}
    /\ pc' = to
    /\ UNCHANGED <<decoderVars, cellVars, localVars, fileVars, pairVars, hostVars,
                   meshVars, histVars, callVars>>

LockDirection == Lock("lock_direction", "direction", "read_direction")
LockSourcePosition ==
    Lock("lock_source_position", "source_position", "read_source_position")
LockListenerPosition ==
    Lock("lock_listener_position", "listener_position", "read_listener_position")

ReadDirection ==
    /\ pc = "read_direction"
    /\ dir' = direction
    /\ held' = Release(held, "direction")
    /\ pc' = "lock_source_position"
    /\ cell_reads' = [cell_reads EXCEPT !["direction"] = @ + 1]
    /\ UNCHANGED <<decoderVars, cellVars, input_buffer, intermediate_buffer,
                   output_buffer, source_pos, listener_pos, fileVars, pairVars, hostVars, meshVars, histVars, call_log>>

ReadSourcePosition ==
    /\ pc = "read_source_position"
    /\ source_pos' = source_position
    /\ held' = Release(held, "source_position")
    /\ pc' = "lock_listener_position"
    /\ cell_reads' = [cell_reads EXCEPT !["source_position"] = @ + 1]
    /\ UNCHANGED <<decoderVars, cellVars, input_buffer, intermediate_buffer,
                   output_buffer, dir, listener_pos, fileVars, pairVars, hostVars, meshVars, histVars, call_log>>

ReadListenerPosition ==
    /\ pc = "read_listener_position"
    /\ listener_pos' = listener_position
    /\ held' = Release(held, "listener_position")
    /\ pc' = "calculate"
    /\ cell_reads' = [cell_reads EXCEPT !["listener_position"] = @ + 1]
    /\ UNCHANGED <<decoderVars, cellVars, input_buffer, intermediate_buffer,
                   output_buffer, dir, source_pos, fileVars, pairVars, hostVars, meshVars, histVars, call_log>>

\* Lines 176-207: the direct-path parameters.
Calculate ==
    /\ pc = "calculate"
    /\ direct_params' = DirectParams(direct_params, source_pos, listener_pos)
    /\ pc' = "direct"
    /\ UNCHANGED <<decoder, sample_rate, current_channel, current_block_offset,
                   current_block1, current_block2, binaural_params, blocks_played,
                   cellVars, held, localVars, fileVars, pairVars, hostVars, meshVars, histVars, callVars>>

\* Lines 210-212, apply_to_buffer returns Ok.
DirectOk ==
    /\ pc = "direct"
    /\ intermediate_buffer' = ApplyDirect(direct_params, input_buffer)
    /\ pc' = "binaural"
    /\ call_log' = Append(call_log, "direct")
    /\ UNCHANGED <<decoderVars, cellVars, held, input_buffer, output_buffer, dir,
                   source_pos, listener_pos, fileVars, pairVars, hostVars, meshVars, histVars, cell_reads>>

\* Lines 210-212, apply_to_buffer returns Err: unwrap() panics.
DirectErr ==
    /\ pc = "direct"
    /\ effect_error' = "direct"
    /\ pc' = "panicked"
    /\ call_log' = Append(call_log, "direct")
    /\ UNCHANGED <<decoderVars, cellVars, held, localVars, fileVars, pairVars, hostVars, meshVars, ret, ended,
                   emitted, served,
                   cell_reads>>

\* Lines 214-222, apply_to_buffer returns Ok.
BinauralOk ==
    /\ pc = "binaural"
    /\ binaural_params' = [binaural_params EXCEPT !.direction = dir]
    /\ output_buffer' =
          ApplyBinaural([binaural_params EXCEPT !.direction = dir],
                        BinauralInput(input_buffer, intermediate_buffer))
    /\ pc' = "store"
    /\ call_log' = Append(call_log, "binaural")
    /\ UNCHANGED <<decoder, sample_rate, current_channel, current_block_offset,
                   current_block1, current_block2, direct_params, blocks_played,
                   cellVars, held, input_buffer, intermediate_buffer, dir,
                   source_pos, listener_pos, fileVars, pairVars, hostVars, meshVars, histVars, cell_reads>>

\* Lines 214-222, apply_to_buffer returns Err: unwrap() panics.
BinauralErr ==
    /\ pc = "binaural"
    /\ binaural_params' = [binaural_params EXCEPT !.direction = dir]
    /\ effect_error' = "binaural"
    /\ pc' = "panicked"
    /\ call_log' = Append(call_log, "binaural")
    /\ UNCHANGED <<decoder, sample_rate, current_channel, current_block_offset,
                   current_block1, current_block2, direct_params, blocks_played,
                   cellVars, held, localVars, fileVars, pairVars, hostVars, meshVars, ret, ended, emitted, served,
                   cell_reads>>

\* Lines 224-226, then back to the top of the loop.
Store ==
    /\ pc = "store"
    /\ current_block1' = CurrentFrame(output_buffer, 0)
    /\ current_block2' = CurrentFrame(output_buffer, 1)
    /\ blocks_played' = NextBlocksPlayed(blocks_played)
    /\ pc' = "top"
    /\ UNCHANGED <<decoder, sample_rate, current_channel, current_block_offset,
                   binaural_params, direct_params, cellVars, held, localVars,
                   fileVars, pairVars, hostVars, meshVars, histVars, callVars>>

\* ------------------------------------------------- the update context
\* One update step of the host application: it writes the three cells of the
\* SpatialState together, from one source position and one listener
\* transform, while the renderer holds none of the mutexes.
UpdateSpatialState ==
    /\ held = {}
    /\ \E s \in Pos, l \in Pos, yaw \in {0, 180} :
          /\ direction' = Direction(s, l, yaw)
          /\ source_position' = s
          /\ listener_position' = l
    /\ UNCHANGED <<decoderVars, held, pc, localVars, fileVars, pairVars, hostVars, meshVars, histVars, callVars>>

Next ==
    \/ Serve
    \/ RefillStart
    \/ RefillExhausted
    \/ LockDirection
    \/ ReadDirection
    \/ LockSourcePosition
    \/ ReadSourcePosition
    \/ LockListenerPosition
    \/ ReadListenerPosition
    \/ Calculate
    \/ DirectOk
    \/ DirectErr
    \/ BinauralOk
    \/ BinauralErr
    \/ Store
    \/ UpdateSpatialState

Spec == Init /\ [][Next]_vars

\* ------------------------------------------------------ listener_update
\* GlobalTransform::right / up / forward of a listener turned by `yaw`
\* about the y axis.
Right(yaw) == IF yaw = 0 THEN <<1, 0, 0>> ELSE <<-1, 0, 0>>
Up(yaw) == <<0, 1, 0>>
Forward(yaw) == IF yaw = 0 THEN <<0, 0, -1>> ELSE <<0, 0, 1>>

\* Lines 359-364.
OrientationOf(t) ==
    [origin |-> <<0, 0, t.translation>>, right |-> Right(t.yaw), up |-> Up(t.yaw),
     ahead |-> Forward(t.yaw)]

\* Lines 366-369.
SharedInputsOf(t) == [listener |-> OrientationOf(t)]

\* A step that moves the simulator's listener by each listener's translation.
RECURSIVE SetSharedInputs_Accumulate(_, _, _)
SetSharedInputs_Accumulate(cur, tf, order) ==
    IF order = <<>> THEN cur
    ELSE LET t == tf[Head(order)]
             o == [OrientationOf(t) EXCEPT
                       !.origin = <<0, 0, cur.listener.origin[3] + t.translation>>]
         IN SetSharedInputs_Accumulate([listener |-> o], tf, Tail(order))

\* Lines 357-374: every listener of the query, in the query's order, sets the
\* simulator's shared inputs.
RECURSIVE SetSharedInputs(_, _, _)
SetSharedInputs(cur, tf, order) ==
    IF order = <<>> THEN cur
    ELSE SetSharedInputs(SharedInputsOf(tf[Head(order)]), tf, Tail(order))

\* listener_update (lines 353-375): it writes the simulator's shared inputs
\* and nothing else.
ListenerUpdate ==
    /\ sync_calls < MaxSyncCalls
    /\ shared_inputs' = SetSharedInputs(shared_inputs, listener_tf, query_order)
    /\ synced' = TRUE
    /\ sync_calls' = sync_calls + 1
    /\ UNCHANGED <<decoderVars, cellVars, held, pc, localVars, fileVars, pairVars,
                   histVars, callVars, listeners, listener_tf, source_tf, query_order,
                   meshVars>>

\* The host moves or turns a listener.
MoveListener ==
    /\ \E e \in listeners, t \in Transforms :
          /\ t # listener_tf[e]
          /\ listener_tf' = [listener_tf EXCEPT ![e] = t]
    /\ synced' = FALSE
    /\ sync_calls' = 0
    /\ UNCHANGED <<decoderVars, cellVars, held, pc, localVars, fileVars, pairVars, histVars, callVars,
                   listeners, source_tf, shared_inputs, query_order, meshVars>>

\* The host moves the sound source.
MoveSource ==
    /\ \E p \in Pos :
          /\ p # source_tf
          /\ source_tf' = p
    /\ synced' = FALSE
    /\ sync_calls' = 0
    /\ UNCHANGED <<decoderVars, cellVars, held, pc, localVars, fileVars, pairVars, histVars, callVars,
                   listeners, listener_tf, shared_inputs, query_order, meshVars>>

\* Any scene; the SpatialState cells as constructed.
SyncInit ==
    /\ NewDecoder(0, 44100)
    /\ InitCells
    /\ \E ls \in SUBSET Entities, tf \in [Entities -> Transforms], src \in Pos :
          /\ \A e \in Entities \ ls : tf[e] = DefaultTransform
          /\ \E order \in Orders(ls) : InitHost(ls, tf, src, order)
    /\ InitMesh(NoMesh)
    /\ InitPair(NoFiles)

SyncNext ==
    \/ ListenerUpdate
    \/ MoveListener
    \/ MoveSource

SyncSpec == SyncInit /\ [][SyncNext]_vars

\* -------------------------------------------------- AudioMesh::try_from
Topologies == {"PointList", "LineList", "LineStrip", "TriangleList", "TriangleStrip"}
IndexSeqs == UNION {[1..n -> 0..MaxVertex] : n \in 0..MaxIndices}
IndexBuffers ==
    {[kind |-> "None", values |-> <<>>]} \cup [kind : {"U16", "U32"}, values : IndexSeqs]
PositionAttributes ==
    { [format |-> "Missing", values |-> <<>>],
      [format |-> "Float32x3", values |-> [v \in 1..(MaxVertex + 1) |-> <<0, 0, v - 1>>]],
      [format |-> "Float32x2", values |-> [v \in 1..(MaxVertex + 1) |-> <<0, v - 1>>]] }
Meshes == [indices : IndexBuffers, topology : Topologies, positions : PositionAttributes]

\* Lines 395-400: the indices as u32; `as u32` zero-extends a u16, so every
\* index keeps its value.
IndicesU32(indices) ==
    [k \in 1..Len(indices.values) |-> indices.values[k]]

\* Lines 403-406: chunks_exact(3).
ChunksExact3(ix) ==
    [k \in 1..(Len(ix) \div 3) |-> <<ix[3 * k - 2], ix[3 * k - 1], ix[3 * k]>>]

\* Lines 408-411: windows(3).
Windows3(ix) ==
    [k \in 1..(IF Len(ix) >= 3 THEN Len(ix) - 2 ELSE 0) |-> <<ix[k], ix[k + 1], ix[k + 2]>>]

\* A conversion that flips the triangles at even 0-based indices.
FlipAlternate_Even(ts) ==
    [k \in 1..Len(ts) |->
        IF (k - 1) % 2 = 0 THEN <<ts[k][2], ts[k][1], ts[k][3]>> ELSE ts[k]]

\* Lines 413-417: the triangle at 0-based index k - 1 is flipped when
\* (index + 1) % 2 == 0.
FlipAlternate(ts) ==
    [k \in 1..Len(ts) |->
        IF ((k - 1) + 1) % 2 = 0 THEN <<ts[k][2], ts[k][1], ts[k][3]>> ELSE ts[k]]

\* Lines 393-425.
TrianglesOf(m) ==
    IF m.indices.kind = "None"
    THEN [tag |-> "Ok", triangles |-> <<>>]
    ELSE LET ix == IndicesU32(m.indices)
         IN CASE m.topology = "TriangleList" ->
                    [tag |-> "Ok", triangles |-> ChunksExact3(ix)]
              [] m.topology = "TriangleStrip" ->
                    [tag |-> "Ok", triangles |-> FlipAlternate(Windows3(ix))]
              [] OTHER ->
                    [tag |-> "Err", error |-> "NonTrianglePrimitiveTopology",
                     topology |-> m.topology]

\* Line 430: [f32; 3] into Vec3.
Vec3From(a) == [x |-> a[1], y |-> a[2], z |-> a[3]]

\* Lines 427-435.
VerticesOf(m) ==
    IF m.positions.format = "Float32x3"
    THEN [tag |-> "Ok",
          vertices |-> [k \in 1..Len(m.positions.values) |-> Vec3From(m.positions.values[k])]]
    ELSE [tag |-> "Err", error |-> "NoVertices"]

\* Line 437: the material list.
Materials == <<"GENERIC">>

\* A conversion that numbers the triangles instead of naming their material.
MaterialIndices_Enumerated(triangles) == [k \in 1..Len(triangles) |-> k - 1]

\* Line 438: every triangle gets index 0, GENERIC.
MaterialIndices(triangles) == [k \in 1..Len(triangles) |-> 0]

\* AudioMesh::try_from (lines 392-446).
TryFrom(m) ==
    LET t == TrianglesOf(m)
        v == VerticesOf(m)
    IN IF t.tag = "Err" THEN t
       ELSE IF v.tag = "Err" THEN v
       ELSE [tag |-> "Ok", vertices |-> v.vertices, triangles |-> t.triangles,
             materials |-> Materials,
             material_indices |-> MaterialIndices(t.triangles)]

\* One conversion of the mesh.
Convert ==
    /\ result.tag = "pending"
    /\ result' = TryFrom(mesh)
    /\ UNCHANGED <<decoderVars, cellVars, held, pc, localVars, fileVars, pairVars, histVars, callVars,
                   hostVars, mesh>>

MeshInit ==
    /\ NewDecoder(0, 44100)
    /\ InitCells
    /\ InitHost({1}, [e \in Entities |-> DefaultTransform], 0, <<1>>)
    /\ \E m \in Meshes : InitMesh(m)
    /\ InitPair(NoFiles)

MeshNext == Convert

MeshSpec == MeshInit /\ [][MeshNext]_vars

\* ------------------------------------------------- two renderers at once
\* A renderer that reads the file another renderer opened.
UpstreamOf_Shared(d) == 1

\* Lines 71-72 and 99: every renderer opens and owns its own file reader.
UpstreamOf(d) == d

\* The SpatialState a refill reads (lines 172-174).
CellValues == [direction |-> direction, source_position |-> source_position,
               listener_position |-> listener_position]

\* Lines 133-146 on a renderer's own fields.
ServeFrom(r) ==
    [r EXCEPT !.out = Append(@, SomeItem(RawVal(r.current_channel, r.current_block_offset,
                                               r.current_block1, r.current_block2))),
              !.current_block_offset = NextBlockOffset(r.current_channel, @),
              !.current_channel = NextChannel(@)]

\* Lines 172-226 on a renderer's own fields, both effects succeeding.
RefilledFrom(r, frame, c) ==
    LET dp == DirectParams(r.direct_params, c.source_position, c.listener_position)
        bp == [r.binaural_params EXCEPT !.direction = c.direction]
        output == ApplyBinaural(bp, BinauralInput(frame, ApplyDirect(dp, frame)))
    IN [r EXCEPT !.current_block_offset = ResetOffset(@),
                 !.direct_params = dp,
                 !.binaural_params = bp,
                 !.current_block1 = CurrentFrame(output, 0),
                 !.current_block2 = CurrentFrame(output, 1),
                 !.blocks_played = NextBlocksPlayed(@)]

\* One whole call of SteamDecoder::next (lines 130-231) on renderer fields r
\* reading the upstream `up`: the fields and the upstream after it.
RECURSIVE PullOnce(_, _, _)
PullOnce(r, up, c) ==
    IF HasBuffered(r.current_block_offset, r.current_block1)
    THEN [r |-> ServeFrom(r), up |-> up]
    ELSE LET f == PushSource(up.rest, FrameSize)
         IN IF f.ok
            THEN PullOnce(RefilledFrom(r, f.frame, c), [up EXCEPT !.rest = f.rest], c)
            ELSE [r |-> [r EXCEPT !.current_block_offset = ResetOffset(@),
                                  !.out = Append(@, NoneItem)],
                  up |-> [up EXCEPT !.rest = f.rest]]

\* One pull on one of the two renderers.
PullOn(d) ==
    /\ Len(renderers[d].out) < MaxPulls
    /\ LET u == UpstreamOf(d)
           p == PullOnce(renderers[d], upstreams[u], CellValues)
       IN /\ renderers' = [renderers EXCEPT ![d] = p.r]
          /\ upstreams' = [upstreams EXCEPT ![u] = p.up]
    /\ UNCHANGED <<decoderVars, cellVars, held, pc, localVars, fileVars, histVars,
                   callVars, hostVars, meshVars>>

PullFirst == PullOn(1)
PullSecond == PullOn(2)

\* Two fresh renderers on files of any lengths, under any SpatialState an
\* update step may have written.
PairInit ==
    /\ NewDecoder(0, 44100)
    /\ \E s \in Pos, l \in Pos, yaw \in Yaws :
          /\ direction = Direction(s, l, yaw)
          /\ source_position = s
          /\ listener_position = l
    /\ InitHost({1}, [e \in Entities |-> DefaultTransform], 0, <<1>>)
    /\ InitMesh(NoMesh)
    /\ \E ms \in [RendererIds -> 0..MaxUpstream] : InitPair(ms)

PairNext ==
    \/ PullFirst
    \/ PullSecond

PairSpec == PairInit /\ [][PairNext]_vars

\* ================================================================ claims
\* Mono samples pulled from the upstream so far.
Consumed == source_len - Len(decoder)

\* L[0], R[0], L[1], R[1], ... of two channel blocks.
Interleaved(b1, b2) ==
    [k \in 1..(2 * Len(b1)) |-> IF k % 2 = 1 THEN b1[(k + 1) \div 2] ELSE b2[k \div 2]]

\* C1: once a pull has returned None, every later pull returns None.
C1_ExhaustedIsTerminal ==
    (ended /\ pc = "idle") => ret = NoneItem

\* C2: the pulls served from one frame return L[0], R[0], L[1], R[1], ... in
\* that order; the channel alternates on every pull and the offset advances
\* only after a right-channel sample.
C2_InterleavedOrder ==
    /\ Len(served) <= 2 * Len(current_block1)
    /\ served = SubSeq(Interleaved(current_block1, current_block2), 1, Len(served))
    /\ Len(served) = 2 * current_block_offset + (IF current_channel THEN 0 ELSE 1)

C2_Witness ==
    /\ blocks_played = 2
    /\ Len(served) = 2 * FrameSize
    /\ served[1].ch = 0
    /\ served[2].ch = 1

\* C3 as stated: 2 * frame_size samples pulled from a fresh renderer consume
\* two upstream frames.
C3_TwoFramesConsumed ==
    (~ended /\ pc = "idle" /\ emitted = 2 * FrameSize) => Consumed = 2 * FrameSize

\* C3 amended: 2 * frame_size samples pulled from a fresh renderer consume
\* exactly one upstream frame, frame_size mono samples.
C3_OneFrameConsumed ==
    (~ended /\ pc = "idle" /\ emitted = 2 * FrameSize) => Consumed = FrameSize

C3_Witness ==
    /\ ~ended
    /\ pc = "idle"
    /\ emitted = 2 * FrameSize
    /\ Consumed = FrameSize
    /\ source_len >= 2 * FrameSize

\* C4: on an upstream of exactly frame_size samples the renderer produces one
\* frame, serves 2 * frame_size samples, and the pull after the last buffered
\* sample finds the upstream exhausted and returns None.
C4_ExactlyOneFrame ==
    source_len = FrameSize =>
        /\ blocks_played <= 1
        /\ emitted <= 2 * FrameSize
        /\ ended => (blocks_played = 1 /\ emitted = 2 * FrameSize)
        /\ (pc = "idle" /\ ~ended /\ emitted = 2 * FrameSize) =>
              /\ ~HasBuffered(current_block_offset, current_block1)
              /\ ~PushSource(decoder, FrameSize).ok
              /\ blocks_played = 1

C4_Witness ==
    /\ source_len = FrameSize
    /\ ended
    /\ ret = NoneItem
    /\ blocks_played = 1
    /\ emitted = 2 * FrameSize

\* C5: a failing direct or binaural effect does not panic; the pull returns
\* no sample and the stream ends.
C5_EffectFailureEndsStream ==
    effect_error # "none" => (pc = "idle" /\ ret = NoneItem)

\* A (direction, source, listener) triple that one update step writes.
WrittenTogether(d, s, l) == \E yaw \in Yaws : d = Direction(s, l, yaw)

\* C6: the triple the renderer uses for a frame was written by one single
\* update step.
C6_NoTornRead ==
    pc \in {"calculate", "direct", "binaural", "store"} =>
        WrittenTogether(dir, source_pos, listener_pos)

\* C7: after listener_update has run on the current transforms, the
\* SpatialState holds the source position, the listener position and the
\* listener-relative direction derived from them.
C7_SyncWritesSpatialState ==
    (synced /\ listeners # {}) =>
        \E e \in listeners :
            /\ source_position = source_tf
            /\ listener_position = listener_tf[e].translation
            /\ direction = Direction(source_tf, listener_tf[e].translation,
                                     listener_tf[e].yaw)

\* C8: the sample rate reported to the consumer is the upstream's native rate.
C8_NativeSampleRate ==
    SampleRate = native_rate

\* C9: for every frame the direct-path parameters are computed, the direct
\* effect is applied to the raw mono frame, the binaural effect is applied
\* last, to the direct effect's output, and its output is what is buffered.
EffectChain(frame) == [k \in 1..Len(frame.chain) |-> frame.chain[k][1]]

C9_EffectOrder ==
    /\ \A i \in 1..Len(current_block1) :
          /\ EffectChain(current_block1[i].of) = <<"direct", "binaural">>
          /\ current_block2[i].of = current_block1[i].of
    /\ pc \in {"direct", "binaural", "store"} =>
          /\ direct_params.distance_attenuation = Attenuation(source_pos, listener_pos)
          /\ direct_params.air_absorption = Absorption(source_pos, listener_pos)
          /\ direct_params.directivity = DirectivityOf(listener_pos)
    /\ pc \in {"binaural", "store"} =>
          /\ intermediate_buffer.chain = << <<"direct", direct_params>> >>
          /\ intermediate_buffer.data = input_buffer.data
    /\ pc = "store" =>
          /\ output_buffer.chain =
                << <<"direct", direct_params>>, <<"binaural", binaural_params>> >>
          /\ output_buffer.data = input_buffer.data
          /\ binaural_params.direction = dir
    /\ pc = "top" =>
          \A i \in 1..Len(current_block1) : current_block1[i].of = output_buffer

C9_Witness ==
    /\ pc = "top"
    /\ blocks_played = 2
    /\ Len(current_block1) = FrameSize
    /\ EffectChain(output_buffer) = <<"direct", "binaural">>

\* A renderer alone: k pulls on fresh fields and a freshly opened file.
RECURSIVE PulledAlone(_, _, _)
PulledAlone(file, k, c) ==
    IF k = 0 THEN [r |-> FreshRenderer, up |-> [file |-> file, rest |-> file]]
    ELSE LET before == PulledAlone(file, k - 1, c)
         IN PullOnce(before.r, before.up, c)

\* C11: under any interleaving of the pulls on two renderers, each renderer
\* has returned the items, and holds the cursor, blocks and frame count, of
\* the same number of pulls made on it alone on its own file.
C11_RenderersDoNotInterfere ==
    \A d \in RendererIds :
        LET alone == PulledAlone(OpenFile(d, Len(upstreams[d].file)).file,
                                 Len(renderers[d].out), CellValues)
        IN /\ renderers[d] = alone.r
           /\ upstreams[d] = alone.up

C11_Witness ==
    /\ \A d \in RendererIds :
          /\ Len(renderers[d].out) = MaxPulls
          /\ renderers[d].blocks_played >= 1
          /\ renderers[d].out[1] # NoneItem
    /\ renderers[1].out[2 * FrameSize + 1] = NoneItem
    /\ renderers[2].blocks_played = 2
    /\ renderers[1].out[1] # renderers[2].out[1]

\* C10: converting a mesh whose topology is neither a triangle list nor a
\* triangle strip fails with NonTrianglePrimitiveTopology, with or without an
\* index buffer.
C10_NonTriangleTopologyFails ==
    (result.tag # "pending" /\ mesh.topology \notin {"TriangleList", "TriangleStrip"}) =>
        /\ result.tag = "Err"
        /\ result.error = "NonTrianglePrimitiveTopology"

\* The SpatialState values a buffered frame was rendered with.
RenderedWith(frame) ==
    [direction |-> frame.chain[2][2].direction,
     distance_attenuation |-> frame.chain[1][2].distance_attenuation,
     air_absorption |-> frame.chain[1][2].air_absorption,
     directivity |-> frame.chain[1][2].directivity]

\* C12: between pulls every cell has been read once per produced frame, so a
\* pull served from the block and a refill whose fill fails read none; and
\* every buffered sample is rendered with the values copied at its refill,
\* whatever has been written to the cells since.
C12_ReadOncePerFrame ==
    AtTop =>
        /\ \A c \in Cells : cell_reads[c] = blocks_played
        /\ \A i \in 1..Len(current_block1) :
              RenderedWith(current_block1[i].of) =
                  [direction |-> dir,
                   distance_attenuation |-> Attenuation(source_pos, listener_pos),
                   air_absorption |-> Absorption(source_pos, listener_pos),
                   directivity |-> DirectivityOf(listener_pos)]

C12_Witness ==
    /\ pc = "idle"
    /\ ended
    /\ blocks_played = 2
    /\ \A c \in Cells : cell_reads[c] = 2
    /\ direction # dir
    /\ listener_position # listener_pos
    /\ RenderedWith(current_block1[1].of).direction = dir
    /\ RenderedWith(current_block1[1].of).directivity = DirectivityOf(listener_pos)

\* The mutex a pull holds at each of its positions.
HeldAt(at) ==
    CASE at = "read_direction" -> {"direction"}
      [] at = "read_source_position" -> {"source_position"}
      [] at = "read_listener_position" -> {"listener_position"}
      [] OTHER -> {}

\* C13: the renderer holds at most one SpatialState mutex, only while it
\* copies that cell, and none while it fills from upstream, computes the
\* direct-path parameters or applies an effect; it never waits for a mutex
\* while holding one, and the mutex it is about to take is free of it.
C13_OneLockAtATime ==
    /\ held = HeldAt(pc)
    /\ Cardinality(held) <= 1
    /\ pc = "lock_direction" => ENABLED LockDirection
    /\ pc = "lock_source_position" => ENABLED LockSourcePosition
    /\ pc = "lock_listener_position" => ENABLED LockListenerPosition
    /\ held = {} => ENABLED UpdateSpatialState

C13_Witness ==
    /\ pc = "read_listener_position"
    /\ held = {"listener_position"}
    /\ blocks_played = 1
    /\ direction # dir
    /\ cell_reads["direction"] = 2

\* The whole frames of an upstream of m mono samples.
WholeFrames(m) == m \div FrameSize

\* The b-th frame of the upstream file, b = 1, 2, ...
FrameOfFile(b) == [j \in 1..FrameSize |-> (b - 1) * FrameSize + j]

\* C14: the samples returned before the first None never exceed
\* 2 * frame_size * floor(M / frame_size) and number exactly that once None
\* has been returned; every buffered sample comes from a whole frame of the
\* file, so the trailing M mod frame_size samples are neither rendered nor
\* padded with zeros.
C14_NoShortFrameOutput ==
    /\ emitted <= 2 * FrameSize * WholeFrames(source_len)
    /\ ended => emitted = 2 * FrameSize * WholeFrames(source_len)
    /\ blocks_played <= WholeFrames(source_len)
    /\ \A i \in 1..Len(current_block1) :
          /\ current_block1[i].of.data = FrameOfFile(blocks_played)
          /\ current_block2[i].of.data = FrameOfFile(blocks_played)

C14_Witness ==
    /\ ended
    /\ ret = NoneItem
    /\ source_len > FrameSize
    /\ source_len % FrameSize # 0
    /\ decoder = <<>>
    /\ input_buffer.data[1] = source_len
    /\ emitted = 2 * FrameSize * WholeFrames(source_len)
    /\ current_block1[1].of.data = FrameOfFile(WholeFrames(source_len))

\* C15: blocks_played starts at 0; a step that stores a produced frame adds
\* exactly one to it and every other step (a pull served from the block, a
\* refill that finds the upstream exhausted, any step of a refill before the
\* store) leaves it unchanged; between pulls it equals the number of whole
\* frames taken from the upstream.
C15_CountsProducedFrames ==
    /\ blocks_played = 0
    /\ [][blocks_played' = IF pc = "store" /\ pc' = "top" THEN blocks_played + 1
                           ELSE blocks_played]_vars
    /\ [](AtTop => blocks_played =
                       IF ended THEN WholeFrames(source_len) ELSE Consumed \div FrameSize)
    /\ [](AtTop /\ ~ended => Consumed = blocks_played * FrameSize)

C15_Witness ==
    /\ pc = "idle"
    /\ ended
    /\ ret.tag = "Some"
    /\ blocks_played = 2
    /\ Consumed = source_len
    /\ source_len > blocks_played * FrameSize

\* What one pull does when it refills: one fill, then each effect once.
OneRefill == <<"fill", "direct", "binaural">>

\* C16: a pull in progress has filled from the upstream at most once and
\* applied each effect at most once, in that order; back at the top of the
\* loop after a refill, the block is not empty and the pull returns a sample
\* without refilling again.
C16_AtMostOneRefill ==
    /\ \E k \in 0..Len(OneRefill) : call_log = SubSeq(OneRefill, 1, k)
    /\ pc = "top" =>
          /\ call_log = OneRefill
          /\ HasBuffered(current_block_offset, current_block1)
          /\ ENABLED Serve
          /\ ~ENABLED RefillStart
    /\ pc = "idle" => call_log = <<>>

C16_Witness ==
    /\ pc = "top"
    /\ call_log = OneRefill
    /\ blocks_played = 1
    /\ current_block_offset = 0
    /\ Len(decoder) >= FrameSize

\* C17: a successful conversion of an indexed triangle strip i[0..n-1] has
\* n - 2 triangles (none when n < 3); triangle k, counted from 0, is
\* [i[k], i[k+1], i[k+2]] for even k and [i[k+1], i[k], i[k+2]] for odd k.
C17_StripWinding ==
    (result.tag = "Ok" /\ mesh.topology = "TriangleStrip" /\ mesh.indices.kind # "None") =>
        LET i == mesh.indices.values
            n == Len(i)
        IN /\ Len(result.triangles) = IF n < 3 THEN 0 ELSE n - 2
           /\ \A k \in 0..(Len(result.triangles) - 1) :
                 result.triangles[k + 1] =
                     IF k % 2 = 0 THEN <<i[k + 1], i[k + 2], i[k + 3]>>
                     ELSE <<i[k + 2], i[k + 1], i[k + 3]>>

C17_Witness ==
    /\ result.tag = "Ok"
    /\ mesh.topology = "TriangleStrip"
    /\ mesh.indices.kind = "U16"
    /\ Len(result.triangles) = 3
    /\ \A k \in 1..3 : result.triangles[k][1] # result.triangles[k][2]
    /\ result.triangles[2] = <<mesh.indices.values[3], mesh.indices.values[2],
                               mesh.indices.values[4]>>

\* C20: a successful conversion has one material index per triangle, each a
\* valid 0-based position in the one-element material list, hence 0; a
\* triangle list of n indices gives floor(n / 3) triangles; a mesh without
\* indices gives no triangle and no material index.
C20_MaterialIndexPerTriangle ==
    result.tag = "Ok" =>
        /\ Len(result.material_indices) = Len(result.triangles)
        /\ Len(result.materials) = 1
        /\ \A k \in 1..Len(result.material_indices) :
              /\ result.material_indices[k] \in 0..(Len(result.materials) - 1)
              /\ result.material_indices[k] = 0
        /\ (mesh.indices.kind # "None" /\ mesh.topology = "TriangleList") =>
              Len(result.triangles) = Len(mesh.indices.values) \div 3
        /\ mesh.indices.kind = "None" =>
              (result.triangles = <<>> /\ result.material_indices = <<>>)

C20_Witness ==
    /\ result.tag = "Ok"
    /\ mesh.topology = "TriangleList"
    /\ mesh.indices.kind = "U32"
    /\ Len(mesh.indices.values) = 5
    /\ Len(result.triangles) = 1
    /\ result.material_indices = <<0>>

\* C18: a call of listener_update that follows another with no change of the
\* scene in between leaves the simulator's shared inputs and the three
\* SpatialState cells as the first call left them.
C18_SyncIdempotent ==
    [][(sync_calls >= 1 /\ sync_calls' = sync_calls + 1) =>
           /\ shared_inputs' = shared_inputs
           /\ direction' = direction
           /\ source_position' = source_position
           /\ listener_position' = listener_position]_vars

C18_Witness ==
    /\ sync_calls = 2
    /\ Cardinality(listeners) = 2
    /\ \A e \in listeners : listener_tf[e].translation # 0
    /\ shared_inputs.listener = OrientationOf(listener_tf[query_order[2]])
    /\ shared_inputs.listener # OrientationOf(listener_tf[query_order[1]])

\* C19: after a synchronisation step the simulator's listener orientation is
\* the one the step leaves under every order in which the query may visit
\* the listeners.
C19_DeterministicTieBreak ==
    synced =>
        \A order \in Orders(listeners) :
            SetSharedInputs(DefaultSharedInputs, listener_tf, order).listener =
                shared_inputs.listener

\* C21: the two buffered blocks have the same length, 0 before the first
\* frame and frame_size after it; the cursor lies between 0 and that length;
\* whenever the cursor test lets a pull read the blocks, the index it reads
\* is inside both blocks, and every sample served was read at such an index.
C21_BlocksInBounds ==
    /\ Len(current_block1) = Len(current_block2)
    /\ Len(current_block1) = IF blocks_played = 0 THEN 0 ELSE FrameSize
    /\ 0 <= current_block_offset
    /\ current_block_offset <= Len(current_block1)
    /\ HasBuffered(current_block_offset, current_block1) =>
          /\ current_block_offset + 1 \in DOMAIN current_block1
          /\ current_block_offset + 1 \in DOMAIN current_block2
    /\ \A k \in 1..Len(served) : served[k].idx \in 0..(Len(current_block2) - 1)

C21_Witness ==
    /\ pc = "idle"
    /\ ret.tag = "Some"
    /\ ret.val.ch = 1
    /\ ret.val.idx = FrameSize - 1
    /\ current_block_offset = Len(current_block2)
    /\ blocks_played = 2

\* C22: whenever the cursor has reached the end of the block the channel flag
\* selects the left channel, and it does so throughout a refill; the first
\* sample served after a refill is the left-channel sample at offset 0.
C22_RefillOnLeftChannel ==
    /\ current_block_offset = Len(current_block1) => current_channel
    /\ ~AtTop => current_channel
    /\ pc = "top" => (current_channel /\ current_block_offset = 0)
    /\ Len(served) >= 1 => (served[1].ch = 0 /\ served[1].idx = 0)
    /\ current_channel <=> (Len(served) % 2 = 0)

C22_Witness ==
    /\ pc = "lock_direction"
    /\ blocks_played = 1
    /\ current_channel
    /\ current_block_offset = 0
    /\ Len(current_block1) = FrameSize
    /\ ret.tag = "Some"
    /\ ret.val.ch = 1
====
